---- MODULE Spec2Model ----
(***************************************************************************)
(* Model of migrateToken.js: main() walks the token list; for each token   *)
(* it reads the descriptor from the mirror node, creates the token on the  *)
(* target network, pages through the source NFT inventory, reverses the    *)
(* three accumulated arrays and replays them as mint batches, burning the  *)
(* entries whose source deletion flag is set.                              *)
(*                                                                         *)
(* The mirror node and the ledger client are the environment: every        *)
(* response (descriptor, page, transaction execution, receipt) is a        *)
(* nondeterministic choice among the outcomes the code distinguishes.      *)
(* The body of the creation request (lines 69-107: name, symbol, supply    *)
(* type, fees) and saveKeyToFile are not part of the state.                *)
(***************************************************************************)
EXTENDS Integers, Sequences, FiniteSets, TLC

\* ---------------------------------------------------------------- bounds
MaxN == 21          \* largest source inventory of one token
MaxPage == 8        \* most records the mirror node puts on one page
MaxFail == 1        \* most failing page requests during one token

\* ------------------------------------------------------ program constants
batchSize == 10
PageLimit == 100

NFT == "NON_FUNGIBLE_UNIQUE"

\* Values that stand for JavaScript's null and undefined where the program
\* meets them, and for a process that has not ended.
NullRoute == 0 - 1
NoArg == << "undefined" >>
NoMetadata == << 0 - 1 >>
NoToken == 0 - 1
NotFound == [ type |-> "null" ]
Running == 0 - 1

\* Line 123: the first page is the one at offset 0 of the inventory.
FirstRoute == 1 - 1

\* Command lines tried: argv[2] as a string of characters, or absent.
Args == { <<>>, <<"a", ",", "b">> }

\* Source inventories tried: the serials are gap+1 .. gap+n, and the records
\* flagged deleted are among the two newest and the oldest.
Gaps == { 0, 1 }
DelSets(n) == SUBSET ({ 1, 2, n } \cap (1..n))

\* ---------------------------------------------------------------- helpers
Min(a, b) == IF a < b THEN a ELSE b

Range(s) == { s[k] : k \in DOMAIN s }

RECURSIVE Flatten(_)
Flatten(ss) == IF ss = <<>> THEN <<>> ELSE Head(ss) \o Flatten(Tail(ss))

\* s.filter((x, index) => f[index]): the elements of s whose flag is true;
\* an index past the end of f reads undefined and drops the element.
RECURSIVE FilterByFlag(_, _)
FilterByFlag(s, f) ==
  IF s = <<>> THEN <<>>
  ELSE (IF f # <<>> /\ Head(f) THEN << Head(s) >> ELSE <<>>)
       \o FilterByFlag(Tail(s), IF f = <<>> THEN <<>> ELSE Tail(f))

\* String.prototype.split(','): the fields between the commas; a string
\* without a comma, the empty string included, is one field.
RECURSIVE Split(_)
Split(str) ==
  IF \A k \in DOMAIN str : str[k] # ","
    THEN << str >>
    ELSE LET c == CHOOSE k \in DOMAIN str :
                     str[k] = "," /\ \A m \in 1..(k - 1) : str[m] # ","
         IN << SubSeq(str, 1, c - 1) >> \o Split(SubSeq(str, c + 1, Len(str)))

\* Array.prototype.reverse()
ReverseMut(s) == s
Reverse(s) == [ k \in 1..Len(s) |-> s[Len(s) + 1 - k] ]

\* Buffer.from(x, 'base64').toString('utf-8'): the bytes the transport
\* string stands for, read as UTF-8; a byte that is no valid UTF-8 becomes
\* U+FFFD.  The metadata field is modelled by the bytes it encodes; a record
\* without the field carries NoMetadata and Buffer.from throws on it.
Utf8Decode(bytes) == [ k \in 1..Len(bytes) |->
                         IF bytes[k] < 128 THEN bytes[k] ELSE 65533 ]
DecodeMetadata(m) == Utf8Decode(m)

\* Buffer.from(str): the UTF-8 bytes of the string.
Utf8Encode(str) ==
  Flatten([ k \in 1..Len(str) |->
              IF str[k] < 128 THEN << str[k] >> ELSE << 239, 191, 189 >> ])

\* --------------------------------------------------- the source inventory
\* The mirror node lists a token's NFTs newest first.  Record k of an
\* inventory of n has serial gap + n + 1 - k; every fourth serial carries a
\* metadata byte that is not valid UTF-8.
MetaBytes(s) == IF s % 4 = 0 THEN << s, 255 >> ELSE << s >>

Inventory(n, gap, del) ==
  [ k \in 1..n |-> [ serial_number |-> gap + n + 1 - k,
                     metadata      |-> MetaBytes(gap + n + 1 - k),
                     deleted       |-> (k \in del) ] ]

Inventories(type) ==
  IF type # NFT THEN { <<>> }
  ELSE UNION { { Inventory(n, gap, del) : gap \in Gaps, del \in DelSets(n) } :
                 n \in 0..MaxN }

\* Page of the inventory that starts after offset r, and its next link.
PageEnd(inv, r) == Min(r + Min(PageLimit, MaxPage), Len(inv))
PageRecords(inv, r) == SubSeq(inv, r + 1, PageEnd(inv, r))
PageNext(inv, r) ==
  IF PageEnd(inv, r) >= Len(inv) THEN NullRoute ELSE PageEnd(inv, r)

\* ------------------------------------------------------------------ state
VARIABLES
  help,          \* process.argv.includes('-h')
  arg,           \* process.argv[2]
  pc,            \* position of main
  exitCode,      \* process exit status, Running until the process ends
  tokenList,
  tokIdx,        \* position of the for-of loop in tokenList
  tokenDetails,  \* descriptor of the current token, NotFound if none
  nfts,          \* mirror node: NFT inventory of the current token
  newToken,      \* target token id of the current token
  created,       \* target ledger: tokens created so far
  supply,        \* target ledger: serials minted on newToken
  burned,        \* target ledger: serials burned on newToken
  route,
  serials, metadata, deleteIds,
  i,             \* index of the mint loop
  mintSerials,   \* mintReceipt.serials of the batch at i
  strOutput,
  \* history
  cur,           \* position in tokenList of the token last taken up
  status,        \* what became of token cur
  txLog,         \* target transactions of token cur, in order
  pageReads,     \* inventory page requests made for token cur
  fails,         \* failing page requests for token cur
  delivered,     \* well-formed records received for token cur, in order
  malformed,     \* a record without metadata was received for token cur
  netUsed,       \* some network read or write was made in this run
  rxFailed,      \* a receipt could not be obtained
  diag           \* diagnostics written with console.error

vars == << help, arg, pc, exitCode, tokenList, tokIdx, tokenDetails, nfts,
           newToken, created, supply, burned, route, serials, metadata,
           deleteIds, i, mintSerials, strOutput, cur, status, txLog,
           pageReads, fails, delivered, malformed, netUsed, rxFailed, diag >>

progVars == << tokenList, tokIdx, tokenDetails, nfts, newToken, created,
               supply, burned, route, serials, metadata, deleteIds, i,
               mintSerials, strOutput >>
histVars == << cur, status, txLog, pageReads, fails, delivered, malformed,
               netUsed, rxFailed, diag >>

Init ==
  /\ help \in BOOLEAN
  /\ arg \in Args \cup { NoArg }
  /\ pc = "start"
  /\ exitCode = Running
  /\ tokenList = <<>>
  /\ tokIdx = 1
  /\ tokenDetails = NotFound
  /\ nfts = <<>>
  /\ newToken = NoToken
  /\ created = 0
  /\ supply = 0
  /\ burned = {}
  /\ route = NullRoute
  /\ serials = <<>> /\ metadata = <<>> /\ deleteIds = <<>>
  /\ i = 0
  /\ mintSerials = <<>>
  /\ strOutput = <<>>
  /\ cur = 0
  /\ status = "none"
  /\ txLog = <<>>
  /\ pageReads = 0
  /\ fails = 0
  /\ delivered = <<>>
  /\ malformed = FALSE
  /\ netUsed = FALSE
  /\ rxFailed = FALSE
  /\ diag = {}

\* The process ends with the given status.
Exit(code) == pc' = "done" /\ exitCode' = code

\* An error thrown inside main rejects its promise; the handler attached at
\* line 262 logs it and the process ends normally.
Uncaught == Exit(0)

\* Lines 112-116, 172-176, 195-199: the handler of a receipt that could not
\* be obtained calls process.exit(1).
OnReceiptFailureMut == Uncaught
OnReceiptFailure == Exit(1)

Event(kind, ev, batch, payload, ser) ==
  [ kind |-> kind, ev |-> ev, batch |-> batch, payload |-> payload, serials |-> ser ]

\* ---------------------------------------------------------------- actions
\* Lines 36-54.
Start ==
  /\ pc = "start"
  /\ IF help
       THEN Exit(0) /\ UNCHANGED tokenList
     ELSE IF arg = NoArg
       THEN Uncaught /\ UNCHANGED tokenList
     ELSE IF Len(Split(arg)) = 0
       THEN Uncaught /\ UNCHANGED tokenList
     ELSE /\ tokenList' = Split(arg)
          /\ pc' = "forToken"
          /\ UNCHANGED exitCode
  /\ UNCHANGED << help, arg, tokIdx, tokenDetails, nfts, newToken, created,
                  supply, burned, route, serials, metadata, deleteIds, i,
                  mintSerials, strOutput >>
  /\ UNCHANGED histVars

\* Lines 208-209: the list is exhausted.
Finish ==
  /\ pc = "forToken"
  /\ tokIdx > Len(tokenList)
  /\ Exit(0)
  /\ UNCHANGED << help, arg >> /\ UNCHANGED progVars /\ UNCHANGED histVars

\* Line 62.
IsSupportedMut(details) == TRUE
IsSupported(details) == details.type = NFT

\* Responses of GET /api/v1/tokens/<id>: none, or a descriptor.  Only a
\* non-empty id names a token, and only then can the type be the NFT type.
Descriptors(token) ==
  { [ type |-> t ] : t \in IF token = <<>> THEN { "undefined" }
                           ELSE { NFT, "FUNGIBLE_COMMON" } }

\* Lines 56-67: take up the next token and read its descriptor.
GetTokenDetails ==
  /\ pc = "forToken"
  /\ tokIdx <= Len(tokenList)
  /\ cur' = tokIdx
  /\ netUsed' = TRUE
  /\ txLog' = <<>> /\ pageReads' = 0 /\ fails' = 0
  /\ delivered' = <<>> /\ malformed' = FALSE
  /\ serials' = <<>> /\ metadata' = <<>> /\ deleteIds' = <<>>
  /\ route' = NullRoute /\ i' = 0 /\ mintSerials' = <<>> /\ newToken' = NoToken
  /\ supply' = 0 /\ burned' = {}
  /\ \/ /\ tokenDetails' = NotFound
        /\ nfts' = <<>>
        /\ diag' = diag \cup { << tokIdx, "not found" >> }
        /\ status' = "skipped_missing"
        /\ tokIdx' = tokIdx + 1
        /\ pc' = "forToken"
     \/ \E d \in Descriptors(tokenList[tokIdx]) :
          /\ tokenDetails' = d
          /\ \E inv \in Inventories(d.type) : nfts' = inv
          /\ IF ~IsSupported(d)
               THEN /\ diag' = diag \cup { << tokIdx, "not an NFT" >> }
                    /\ status' = "skipped_type"
                    /\ tokIdx' = tokIdx + 1
                    /\ pc' = "forToken"
               ELSE /\ status' = "migrating"
                    /\ pc' = "create"
                    /\ UNCHANGED << diag, tokIdx >>
  /\ UNCHANGED << help, arg, exitCode, tokenList, created, strOutput, rxFailed >>

\* Line 109: tokenCreateTx.execute(client).
CreateSubmit ==
  /\ pc = "create"
  /\ netUsed' = TRUE
  /\ \/ /\ txLog' = Append(txLog, Event("create", "submit", 0, <<>>, <<>>))
        /\ pc' = "createRx"
        /\ UNCHANGED exitCode
     \/ Uncaught /\ UNCHANGED txLog
  /\ UNCHANGED << help, arg >> /\ UNCHANGED progVars
  /\ UNCHANGED << cur, status, pageReads, fails, delivered, malformed,
                  rxFailed, diag >>

\* Lines 112-127: the creation receipt; on failure process.exit.
CreateReceipt ==
  /\ pc = "createRx"
  /\ \/ /\ created' = created + 1
        /\ newToken' = created + 1
        /\ txLog' = Append(txLog, Event("create", "receipt", 0, <<>>, <<>>))
        /\ route' = FirstRoute
        /\ serials' = <<>> /\ metadata' = <<>> /\ deleteIds' = <<>>
        /\ pc' = "page"
        /\ UNCHANGED << exitCode, rxFailed >>
     \/ /\ rxFailed' = TRUE
        /\ OnReceiptFailure
        /\ UNCHANGED << created, newToken, txLog, route, serials, metadata,
                        deleteIds >>
  /\ UNCHANGED << help, arg, tokenList, tokIdx, tokenDetails, nfts, supply,
                  burned, i, mintSerials, strOutput, cur, status, pageReads,
                  fails, delivered, malformed, netUsed, diag >>

\* Responses the mirror node can give to the page request at route r: the
\* request fails, or a body arrives with the page's records and its links;
\* a body may lack the links object, or its first or last record may lack
\* its metadata.
PageResponses(inv, r, mayFail) ==
  LET recs == PageRecords(inv, r)
      good == [ arrived |-> TRUE, nfts |-> recs, hasLinks |-> TRUE,
                next |-> PageNext(inv, r) ]
  IN  { good } \cup
      ( IF mayFail
          THEN { [ good EXCEPT !.arrived = FALSE ],
                 [ good EXCEPT !.hasLinks = FALSE ] } \cup
               { [ good EXCEPT !.nfts[k].metadata = NoMetadata ] :
                   k \in { 1, Len(recs) } \cap DOMAIN recs }
          ELSE {} )

\* Lines 134-138: the records pushed before the callback returns or throws.
\* Buffer.from throws on a record without metadata, after the record's
\* serial has been pushed.
FirstBad(recs) ==
  IF \E k \in DOMAIN recs : recs[k].metadata = NoMetadata
    THEN CHOOSE k \in DOMAIN recs :
           /\ recs[k].metadata = NoMetadata
           /\ \A m \in 1..(k - 1) : recs[m].metadata # NoMetadata
    ELSE Len(recs) + 1
PushedSerials(recs) ==
  [ k \in 1..Min(FirstBad(recs), Len(recs)) |-> recs[k].serial_number ]
PushedMetadata(recs) ==
  [ k \in 1..(FirstBad(recs) - 1) |-> DecodeMetadata(recs[k].metadata) ]
PushedDeleteIds(recs) ==
  [ k \in 1..(FirstBad(recs) - 1) |-> recs[k].deleted ]

\* Lines 131-144: does the then-callback throw on this body.
Throws(resp) == FirstBad(resp.nfts) <= Len(resp.nfts) \/ ~resp.hasLinks

\* Line 146: while (route != null).
LoopContinuesMut(r) == FALSE
LoopContinues(r) == r # NullRoute

\* Lines 128-153: one round of the do-while loop; when the loop ends, the
\* three arrays are reversed.
FetchPage ==
  /\ pc = "page"
  /\ netUsed' = TRUE
  /\ pageReads' = pageReads + 1
  /\ \E resp \in PageResponses(nfts, route, fails < MaxFail) :
       LET ser == IF ~resp.arrived THEN serials
                  ELSE serials \o PushedSerials(resp.nfts)
           met == IF ~resp.arrived THEN metadata
                  ELSE metadata \o PushedMetadata(resp.nfts)
           del == IF ~resp.arrived THEN deleteIds
                  ELSE deleteIds \o PushedDeleteIds(resp.nfts)
           caught == ~resp.arrived \/ Throws(resp)
           rt  == IF caught THEN route ELSE resp.next
       IN  /\ route' = rt
           /\ fails' = IF caught THEN fails + 1 ELSE fails
           /\ malformed' = (malformed \/
                 (resp.arrived /\ FirstBad(resp.nfts) <= Len(resp.nfts)))
           /\ delivered' = IF ~resp.arrived THEN delivered
                           ELSE delivered \o SubSeq(resp.nfts, 1, FirstBad(resp.nfts) - 1)
           /\ IF LoopContinues(rt)
                THEN /\ serials' = ser /\ metadata' = met /\ deleteIds' = del
                     /\ pc' = "page"
                ELSE /\ serials' = Reverse(ser)
                     /\ metadata' = Reverse(met)
                     /\ deleteIds' = Reverse(del)
                     /\ pc' = "mint"
  /\ i' = 0
  /\ UNCHANGED << help, arg, exitCode, tokenList, tokIdx, tokenDetails, nfts,
                  newToken, created, supply, burned, mintSerials, strOutput,
                  cur, status, txLog, rxFailed, diag >>

\* Line 162: the positions of the batch at i are i .. BatchEnd(i, n) - 1.
BatchEndMut(k, n) == Min(k + batchSize + 1, n)
BatchEnd(k, n) == Min(k + batchSize, n)

\* Lines 181-184: the serials of the batch whose deletion flag is set.
DeleteSliceMut(k) == SubSeq(deleteIds, 1, Min(batchSize, Len(deleteIds)))
DeleteSlice(k) == SubSeq(deleteIds, k + 1, Min(k + batchSize, Len(deleteIds)))
SerialSlice(k) == SubSeq(serials, k + 1, Min(k + batchSize, Len(serials)))
ToDelete(k) == FilterByFlag(SerialSlice(k), DeleteSlice(k))

\* Lines 158-170: build the mint request of the batch at i and execute it.
MintSubmit ==
  /\ pc = "mint"
  /\ i < Len(serials)
  /\ netUsed' = TRUE
  /\ IF BatchEnd(i, Len(serials)) > Len(metadata)
       THEN Uncaught /\ UNCHANGED txLog
       ELSE \/ /\ txLog' = Append(txLog,
                     Event("mint", "submit", i,
                           [ j \in 1..(BatchEnd(i, Len(serials)) - i) |->
                               Utf8Encode(metadata[i + j]) ],
                           <<>>))
               /\ pc' = "mintRx"
               /\ UNCHANGED exitCode
            \/ Uncaught /\ UNCHANGED txLog
  /\ UNCHANGED << help, arg >> /\ UNCHANGED progVars
  /\ UNCHANGED << cur, status, pageReads, fails, delivered, malformed,
                  rxFailed, diag >>

\* Lines 172-186 and 203: the mint receipt; the ledger numbers the minted
\* NFTs from the token's supply upwards, in the order of the request.
MintReceipt ==
  /\ pc = "mintRx"
  /\ \/ LET n == Len(txLog[Len(txLog)].payload)
            got == [ j \in 1..n |-> supply + j ]
        IN  /\ mintSerials' = got
            /\ supply' = supply + n
            /\ txLog' = Append(txLog, Event("mint", "receipt", i, <<>>, got))
            /\ IF Len(ToDelete(i)) > 0
                 THEN pc' = "burn" /\ UNCHANGED i
                 ELSE pc' = "mint" /\ i' = i + batchSize
            /\ UNCHANGED << exitCode, rxFailed >>
     \/ /\ rxFailed' = TRUE
        /\ OnReceiptFailure
        /\ UNCHANGED << mintSerials, supply, txLog, i >>
  /\ UNCHANGED << help, arg, tokenList, tokIdx, tokenDetails, nfts, newToken,
                  created, burned, route, serials, metadata, deleteIds,
                  strOutput, cur, status, pageReads, fails, delivered,
                  malformed, netUsed, diag >>

\* Lines 187-193: the burn request of the batch at i.
BurnSubmit ==
  /\ pc = "burn"
  /\ netUsed' = TRUE
  /\ \/ /\ txLog' = Append(txLog, Event("burn", "submit", i, <<>>, ToDelete(i)))
        /\ pc' = "burnRx"
        /\ UNCHANGED exitCode
     \/ Uncaught /\ UNCHANGED txLog
  /\ UNCHANGED << help, arg >> /\ UNCHANGED progVars
  /\ UNCHANGED << cur, status, pageReads, fails, delivered, malformed,
                  rxFailed, diag >>

\* Lines 195-203: the burn receipt.  The ledger burns only serials that
\* exist on the token and are not burned yet.
BurnReceipt ==
  /\ pc = "burnRx"
  /\ LET req == txLog[Len(txLog)].serials
     IN  \/ /\ Range(req) \subseteq ((1..supply) \ burned)
            /\ burned' = burned \cup Range(req)
            /\ txLog' = Append(txLog, Event("burn", "receipt", i, <<>>, req))
            /\ i' = i + batchSize
            /\ pc' = "mint"
            /\ UNCHANGED << exitCode, rxFailed >>
         \/ /\ rxFailed' = TRUE
            /\ OnReceiptFailure
            /\ UNCHANGED << burned, txLog, i >>
  /\ UNCHANGED << help, arg, tokenList, tokIdx, tokenDetails, nfts, newToken,
                  created, supply, route, serials, metadata, deleteIds,
                  mintSerials, strOutput, cur, status, pageReads, fails,
                  delivered, malformed, netUsed, diag >>

\* Lines 158 and 205: the mint loop is over; the result line is appended.
TokenDone ==
  /\ pc = "mint"
  /\ i >= Len(serials)
  /\ strOutput' = Append(strOutput, [ idx |-> cur, token |-> tokenList[cur],
                                      newToken |-> newToken ])
  /\ status' = "migrated"
  /\ tokIdx' = tokIdx + 1
  /\ pc' = "forToken"
  /\ UNCHANGED << help, arg, exitCode, tokenList, tokenDetails, nfts,
                  newToken, created, supply, burned, route, serials, metadata,
                  deleteIds, i, mintSerials, cur, txLog, pageReads, fails,
                  delivered, malformed, netUsed, rxFailed, diag >>

Next ==
  \/ Start
  \/ Finish
  \/ GetTokenDetails
  \/ CreateSubmit
  \/ CreateReceipt
  \/ FetchPage
  \/ MintSubmit
  \/ MintReceipt
  \/ BurnSubmit
  \/ BurnReceipt
  \/ TokenDone

Spec == Init /\ [][Next]_vars

\* ------------------------------------------------ definitions for the claims
MintSubmits == SelectSeq(txLog, LAMBDA e : e.kind = "mint" /\ e.ev = "submit")

\* The do-while loop of the current token has ended on a null next link.
Paginated == pageReads > 0 /\ route = NullRoute

Shape(log) == [ k \in 1..Len(log) |-> << log[k].kind, log[k].ev, log[k].batch >> ]

IsPrefix(a, b) == Len(a) <= Len(b) /\ a = SubSeq(b, 1, Len(a))

\* Some record of the batch that starts at index k is flagged deleted.
AnyDeleted(k) ==
  \E p \in (k + 1)..Min(k + batchSize, Len(deleteIds)) : deleteIds[p]

\* The writes of the batches from index k on, when every one is confirmed.
RECURSIVE ExpectedWrites(_)
ExpectedWrites(k) ==
  IF k >= Len(serials) THEN <<>>
  ELSE << << "mint", "submit", k >>, << "mint", "receipt", k >> >>
       \o (IF AnyDeleted(k)
             THEN << << "burn", "submit", k >>, << "burn", "receipt", k >> >>
             ELSE <<>>)
       \o ExpectedWrites(k + batchSize)

CreateWrites == << << "create", "submit", 0 >>, << "create", "receipt", 0 >> >>

\* C1: the serials of every burn request are the serials the target network
\* assigned, in the batch's mint receipt, to the batch positions whose source
\* deletion flag is true.
BurnsNewlyAssignedSerials ==
  pc = "burnRx" =>
    Range(txLog[Len(txLog)].serials) =
      { mintSerials[p] : p \in { q \in DOMAIN mintSerials :
                                   i + q <= Len(deleteIds) /\ deleteIds[i + q] } }

\* C2: the mint requests carry between 1 and batchSize payloads each, their
\* payloads concatenated are a prefix of the encoded post-reversal metadata,
\* and once the mint loop has ended there are ceil(N / batchSize) requests
\* whose payloads concatenated are the whole sequence.
MintBatchesPartition ==
  LET subs == MintSubmits
      flat == Flatten([ k \in 1..Len(subs) |-> subs[k].payload ])
      all  == [ j \in 1..Len(metadata) |-> Utf8Encode(metadata[j]) ]
  IN  /\ \A k \in DOMAIN subs : Len(subs[k].payload) \in 1..batchSize
      /\ IsPrefix(flat, all)
      /\ status = "migrated" =>
           /\ Len(subs) = (Len(metadata) + batchSize - 1) \div batchSize
           /\ flat = all

MintBatchesPartitionWitness ==
  /\ status = "migrated"
  /\ Len(MintSubmits) = 3
  /\ Len(MintSubmits[3].payload) < batchSize

\* C3: when the records received over all pages are r0 .. rN, the three
\* arrays after pagination are rN .. r0, and the first payload of the first
\* mint request is the metadata of rN.
ReversalRestoresMintOrder ==
  (Paginated /\ ~malformed) =>
    LET n == Len(delivered)
    IN  /\ Len(serials) = n /\ Len(metadata) = n /\ Len(deleteIds) = n
        /\ \A k \in 1..n :
             /\ serials[k] = delivered[n + 1 - k].serial_number
             /\ metadata[k] = DecodeMetadata(delivered[n + 1 - k].metadata)
             /\ deleteIds[k] = delivered[n + 1 - k].deleted
        /\ MintSubmits # <<>> =>
             MintSubmits[1].payload[1] =
               Utf8Encode(DecodeMetadata(delivered[n].metadata))

ReversalRestoresMintOrderWitness ==
  /\ Paginated /\ ~malformed
  /\ pageReads >= 2
  /\ Len(delivered) >= 2
  /\ MintSubmits # <<>>

\* C4: a token whose descriptor type is not the NFT type gets no target
\* transaction and no inventory page request, a skip diagnostic and no
\* result line, and the loop moves on to the next list position.
NonNftTokenSkipped ==
  (cur > 0 /\ tokenDetails # NotFound /\ tokenDetails.type # NFT) =>
    /\ status = "skipped_type"
    /\ txLog = <<>>
    /\ pageReads = 0
    /\ << cur, "not an NFT" >> \in diag
    /\ \A k \in DOMAIN strOutput : strOutput[k].idx # cur
    /\ tokIdx = cur + 1
    /\ \/ pc = "forToken" /\ exitCode = Running
       \/ pc = "done" /\ exitCode = 0 /\ tokIdx > Len(tokenList)

NonNftTokenSkippedWitness ==
  /\ status = "skipped_type"
  /\ tokenDetails.type = "FUNGIBLE_COMMON"
  /\ pc = "forToken"
  /\ tokIdx <= Len(tokenList)

\* C5: started without -h and with the token list missing or empty, the
\* process ends with status 1 and has made no network read or write.
NoTokenListExitsOne ==
  (pc = "done" /\ ~help /\ arg \in { NoArg, <<>> }) =>
    (exitCode = 1 /\ ~netUsed)

\* C6: when a receipt cannot be obtained the process has ended with status 1
\* and the current token has no result line; the failing step and every
\* later step submit nothing, read nothing, append no result line and leave
\* the target ledger as it was.
ReceiptFailureIsFatal ==
  /\ [](rxFailed =>
          /\ pc = "done" /\ exitCode = 1
          /\ status = "migrating"
          /\ \A k \in DOMAIN strOutput : strOutput[k].idx # cur)
  /\ [][rxFailed' =>
          UNCHANGED << txLog, pageReads, tokIdx, cur, strOutput, created,
                       supply, burned >>]_vars

ReceiptFailureIsFatalWitness ==
  /\ rxFailed
  /\ supply > 0
  /\ cur < Len(tokenList)

\* C7 as stated: no target write of a token, its creation included, is
\* submitted before the token's inventory pagination has completed.
NoWriteBeforePagination ==
  txLog # <<>> => Paginated

\* C7 amended: the creation is submitted and confirmed before the first
\* page request, and mints and burns are submitted only after pagination has
\* completed.
CreateThenFetchThenMint ==
  /\ txLog # <<>> => (status \in { "migrating", "migrated" } /\ IsSupported(tokenDetails))
  /\ pageReads > 0 => (Len(txLog) >= 2 /\ SubSeq(Shape(txLog), 1, 2) = CreateWrites)
  /\ IsPrefix(Shape(txLog), CreateWrites) \/ Paginated

CreateThenFetchThenMintWitness ==
  /\ pc = "page"
  /\ fails > 0
  /\ ~Paginated
  /\ created > 0
  /\ Shape(txLog) = CreateWrites

\* C8: when the pagination loop has ended, the arrays hold the records of
\* every page of the inventory exactly once, in the order received.
PagesAccumulatedOnce ==
  Paginated =>
    LET n == Len(nfts)
    IN  /\ Len(serials) = n /\ Len(metadata) = n /\ Len(deleteIds) = n
        /\ \A k \in 1..n :
             /\ serials[k] = nfts[n + 1 - k].serial_number
             /\ metadata[k] = DecodeMetadata(nfts[n + 1 - k].metadata)
             /\ deleteIds[k] = nfts[n + 1 - k].deleted

\* C9: the three arrays have equal length and the entries at each index
\* belong to one source NFT.
ParallelArraysAligned ==
  /\ Len(serials) = Len(metadata)
  /\ Len(metadata) = Len(deleteIds)
  /\ \A k \in DOMAIN serials :
       \E r \in Range(nfts) :
         /\ r.serial_number = serials[k]
         /\ DecodeMetadata(r.metadata) = metadata[k]
         /\ r.deleted = deleteIds[k]

\* C10: after the creation, the writes of a token are, batch by batch, the
\* mint request, its receipt and, exactly when a record of the batch is
\* flagged deleted, one burn request and its receipt; the result line of the
\* token is there only when the writes of every batch are there.
WritesSequencedPerBatch ==
  /\ Paginated => IsPrefix(Shape(txLog), CreateWrites \o ExpectedWrites(0))
  /\ (\E k \in DOMAIN strOutput : strOutput[k].idx = cur) =>
       (Paginated /\ Shape(txLog) = CreateWrites \o ExpectedWrites(0))

WritesSequencedPerBatchWitness ==
  /\ \E k \in DOMAIN strOutput : strOutput[k].idx = cur
  /\ Shape(txLog) =
       CreateWrites \o
       << << "mint", "submit", 0 >>, << "mint", "receipt", 0 >>,
          << "burn", "submit", 0 >>, << "burn", "receipt", 0 >>,
          << "mint", "submit", 10 >>, << "mint", "receipt", 10 >>,
          << "mint", "submit", 20 >>, << "mint", "receipt", 20 >>,
          << "burn", "submit", 20 >>, << "burn", "receipt", 20 >> >>

====
